---- MODULE Spec2Model ----
(***************************************************************************)
(* The QAT device plugin (cmd/qat_plugin/qat_plugin.go): the scan loop     *)
(* that lists the PCI virtual functions bound to the configured drivers,   *)
(* passes them through getDeviceInfo (classify, rebind, resolve, describe) *)
(* and hands the device tree to the notifier.                              *)
(*                                                                         *)
(* Strings the code cuts or compares are sequences: the device attribute   *)
(* is a sequence of characters, a file name is <<"0000:", a>> for the      *)
(* device with address a and <<"new_id">> for a control file, a path is    *)
(* the sequence of its components.                                         *)
(*                                                                         *)
(* The host (sysfs) is the environment.  Its driver bindings change by     *)
(* the plugin's own writes and, between two cycles, by anything else on    *)
(* the host.  Every filesystem operation of getDeviceInfo may fail; the    *)
(* point of failure is the input f of the device actions.                  *)
(***************************************************************************)
EXTENDS Integers, Sequences, FiniteSets, TLC

\* Number of virtual functions on the host; their addresses are 1..NumDevices.
NumDevices == 2
\* Largest value of the -max-num-devices flag that is explored.
MaxCap == 2
\* Longest ID string written to a device attribute for a call of getDeviceID.
MaxIDLen == 3
\* Largest number of container responses in an allocate response.
MaxContainers == 2

Addr == 1..NumDevices

uioDevicePath == <<"dev">>
vfioDevicePath == <<"dev", "vfio">>
uioMountPath == <<"sys", "class", "uio">>
namespace == <<"qat", ".intel.com">>
vendorPrefix == <<"8086 ">>

\* Contents of <pciDeviceDir>/<addr>/device the model draws from.
RawAttrs ==
    { <<"0", "x", "3", "7", "c", "9", "\n">>,
      <<"0", "x", "1", "2", "3", "4", "\n">> }

\* The uio handle and the IOMMU group the host gives device a.
UioHandle(a) == <<"uio0", "uio1", "uio2", "uio3", "uio4">>[a]
IommuGroup(a) == <<"40", "41", "42", "43", "44">>[a]

\* Points of getDeviceInfo at which a filesystem operation can fail.
FailPoints == {"none", "readID", "unbind", "readID2", "new_id", "names", "mounts"}

VARIABLES
    args,             \* main: the values of -dpdk-driver and -kernel-vf-drivers
    maxDevices,       \* dp.maxDevices
    dpdkDriver,       \* dp.dpdkDriver
    kernelVfDrivers,  \* dp.kernelVfDrivers
    driver,           \* host: the driver each device is bound to, or "none"
    loaded,           \* host: the drivers whose directory exists
    devattr,          \* host: contents of each device's "device" attribute
    pc,               \* position of Scan: "idle" (sleeping), "inventory", "rebind", "notify";
                      \* of main: "main", "exited"; of a call on its own: its name, "returned"
    devTree,          \* devTreeIn of Scan, the map scan adds to
    filesNew,         \* scan's filesNew
    files,            \* entries of the target driver's directory not yet visited
    dpdkDriverBound,  \* scan's dpdkDriverBound
    n,                \* scan's n
    ops,              \* filesystem operations of the getDeviceInfo call just made
    added,            \* ids passed to AddDevice in this cycle
    startDriver,      \* driver at the start of this cycle
    treeAtStart,      \* devTree at the start of this cycle, when it is compared or held
    track,            \* whether the previous cycle is remembered (SpecIdem)
    prevOn,           \* there is a remembered previous cycle
    prevDriver,       \* driver at the start of the previous cycle
    prevLoaded,       \* loaded at the start of the previous cycle
    prevClean,        \* no getDeviceInfo call of the previous cycle failed
    compare,          \* "same"/"sameClean": this cycle started as the previous one did
    clean,            \* no getDeviceInfo call of this cycle has failed
    notifier,         \* "off", or whether the notifier "holds" a tree or is "waiting"
    call              \* a call made outside the scan loop: its arguments and its result

vars == <<args, maxDevices, dpdkDriver, kernelVfDrivers, driver, loaded, devattr, pc,
          devTree, filesNew, files, dpdkDriverBound, n, ops, added, startDriver,
          treeAtStart, track, prevOn, prevDriver, prevLoaded, prevClean, compare,
          clean, notifier, call>>

\* What no step of the scan loop writes.
config == <<args, maxDevices, dpdkDriver, kernelVfDrivers, devattr, call>>
locals == <<filesNew, files, dpdkDriverBound, n>>
history == <<ops, added, startDriver, treeAtStart>>
monitor == <<track, prevOn, prevDriver, prevLoaded, prevClean, compare, clean, notifier>>

----------------------------------------------------------------------------
\* strings and bytes

Range(s) == { s[k] : k \in DOMAIN s }

\* strings.Join(ss, "")
RECURSIVE Join(_)
Join(ss) == IF ss = <<>> THEN <<>> ELSE Head(ss) \o Join(Tail(ss))

HasPrefix(s, prefix) ==
    /\ Len(s) >= Len(prefix)
    /\ SubSeq(s, 1, Len(prefix)) = prefix

TrimPrefix(s, prefix) ==
    IF HasPrefix(s, prefix) THEN SubSeq(s, Len(prefix) + 1, Len(s)) ELSE s

TrimSuffix(s, suffix) ==
    IF /\ Len(s) >= Len(suffix)
       /\ SubSeq(s, Len(s) - Len(suffix) + 1, Len(s)) = suffix
    THEN SubSeq(s, 1, Len(s) - Len(suffix))
    ELSE s

IsSpace(c) == c \in {" ", "\n", "\t", "\r"}

RECURSIVE TrimLeft(_)
TrimLeft(s) == IF s # <<>> /\ IsSpace(Head(s)) THEN TrimLeft(Tail(s)) ELSE s

RECURSIVE TrimRight(_)
TrimRight(s) ==
    IF s # <<>> /\ IsSpace(s[Len(s)]) THEN TrimRight(SubSeq(s, 1, Len(s) - 1)) ELSE s

TrimSpace(s) == TrimRight(TrimLeft(s))

\* strings.Split(s, ","): the names between the commas of a flag, a flag being
\* the sequence of its names and commas; between two commas, before a leading
\* and after a trailing one the name is empty.
RECURSIVE SplitFrom(_, _, _)
SplitFrom(s, name, names) ==
    IF s = <<>> THEN Append(names, name)
    ELSE IF Head(s) = "," THEN SplitFrom(Tail(s), "", Append(names, name))
    ELSE SplitFrom(Tail(s), Head(s), names)

Split(s) == SplitFrom(s, "", <<>>)

ToUpper(s) == [k \in DOMAIN s |-> IF s[k] = "qat" THEN "QAT" ELSE s[k]]

----------------------------------------------------------------------------
\* the host

\* ioutil.ReadDir sorts by name: the devices bound to the driver by address,
\* then the driver's control file.
RECURSIVE BoundFrom(_, _, _)
BoundFrom(drv, d, a) ==
    IF a > NumDevices THEN <<>>
    ELSE (IF drv[a] = d THEN << <<"0000:", a>> >> ELSE <<>>) \o BoundFrom(drv, d, a + 1)

ReadDir(drv, ld, d) ==
    IF d \in ld
    THEN [err |-> FALSE, files |-> BoundFrom(drv, d, 1) \o << <<"new_id">> >>]
    ELSE [err |-> TRUE, files |-> <<>>]

\* The device a file name under pciDeviceDir stands for.
DeviceAt(pciAddr) == pciAddr[2]

\* The hardware ID of a device, as the kernel matches it against new_id.
HardwareID(a) == TrimPrefix(TrimSpace(devattr[a]), <<"0", "x">>)

\* A successful write to <device>/driver/unbind.
Unbound(drv, a) == [drv EXCEPT ![a] = "none"]

\* A successful write of "<vendor> <id>" to <target driver>/new_id: the driver
\* takes every device of that vendor and ID that has no driver.  Every device
\* of the model has the vendor 8086.
NewID(drv, written) ==
    [b \in Addr |->
        IF drv[b] = "none" /\ written = <<"8086 ">> \o HardwareID(b)
        THEN dpdkDriver
        ELSE drv[b]]

----------------------------------------------------------------------------
\* the plugin

Event(op, a, ok, drv) == [op |-> op, addr |-> a, ok |-> ok, bound |-> drv[a]]

\* strings.TrimLeft(s, "0x"): every leading "0" and "x" is cut.
RECURSIVE TrimLeft0x(_)
TrimLeft0x(s) == IF s # <<>> /\ Head(s) \in {"0", "x"} THEN TrimLeft0x(Tail(s)) ELSE s

\* getDeviceID with strings.TrimLeft in place of strings.TrimPrefix.
getDeviceIDTrimsLeft(pciAddr, fail) ==
    IF fail
    THEN [id |-> <<>>, err |-> TRUE]
    ELSE [id |-> TrimLeft0x(TrimSpace(devattr[DeviceAt(pciAddr)])), err |-> FALSE]

getDeviceID(pciAddr, fail) ==
    IF fail
    THEN [id |-> <<>>, err |-> TRUE]
    ELSE [id |-> TrimPrefix(TrimSpace(devattr[DeviceAt(pciAddr)]), <<"0", "x">>),
          err |-> FALSE]

isValidKerneDriver(kernelvfDriver) ==
    kernelvfDriver \in {"dh895xccvf", "c6xxvf", "c3xxxvf", "d15xxvf"}

isValidDpdkDeviceDriver(d) == d \in {"igb_uio", "vfio-pci"}

isValidVfDeviceID(vfDevID) ==
    vfDevID \in { <<"0", "4", "4", "2">>, <<"0", "4", "4", "3">>,
                  <<"3", "7", "c", "9">>, <<"1", "9", "e", "3">> }

\* bindDevice without the return at line 173: a failed unbind write is only
\* noted and the new_id write follows.
bindDeviceBindsAnyway(drv, id, f) ==
    LET devicePCIAddr == <<"0000:">> \o id
        a == DeviceAt(devicePCIAddr)
        unbindOK == drv[a] # "none" /\ f # "unbind"
        e1 == Event("unbind", a, unbindOK, drv)
        drv1 == IF unbindOK THEN Unbound(drv, a) ELSE drv
        rd == getDeviceID(devicePCIAddr, f = "readID2")
        e2 == Event("readID2", a, ~rd.err, drv1)
        bindOK == dpdkDriver \in loaded /\ f # "new_id"
        e3 == Event("new_id", a, bindOK, drv1)
    IN  IF rd.err THEN [drv |-> drv1, ops |-> <<e1, e2>>, err |-> TRUE]
        ELSE IF ~bindOK THEN [drv |-> drv1, ops |-> <<e1, e2, e3>>, err |-> TRUE]
        ELSE [drv |-> NewID(drv1, vendorPrefix \o rd.id), ops |-> <<e1, e2, e3>>,
              err |-> ~unbindOK]

\* bindDevice: the unbind write, the second read of the ID, the new_id write.
bindDevice(drv, id, f) ==
    LET devicePCIAddr == <<"0000:">> \o id
        a == DeviceAt(devicePCIAddr)
        unbindOK == drv[a] # "none" /\ f # "unbind"
        e1 == Event("unbind", a, unbindOK, drv)
        drv1 == Unbound(drv, a)
        rd == getDeviceID(devicePCIAddr, f = "readID2")
        e2 == Event("readID2", a, ~rd.err, drv1)
        bindOK == dpdkDriver \in loaded /\ f # "new_id"
        e3 == Event("new_id", a, bindOK, drv1)
    IN  IF ~unbindOK THEN [drv |-> drv, ops |-> <<e1>>, err |-> TRUE]
        ELSE IF rd.err THEN [drv |-> drv1, ops |-> <<e1, e2>>, err |-> TRUE]
        ELSE IF ~bindOK THEN [drv |-> drv1, ops |-> <<e1, e2, e3>>, err |-> TRUE]
        ELSE [drv |-> NewID(drv1, vendorPrefix \o rd.id), ops |-> <<e1, e2, e3>>, err |-> FALSE]

\* getDpdkDevice: the uio handle or the IOMMU group of the device.
getDpdkDevice(drv, id, fail) ==
    LET a == DeviceAt(<<"0000:">> \o id)
    IN  CASE dpdkDriver = "igb_uio" ->
               IF fail \/ drv[a] # dpdkDriver
               THEN [name |-> "", err |-> TRUE]
               ELSE [name |-> UioHandle(a), err |-> FALSE]
          [] dpdkDriver = "vfio-pci" ->
               IF fail
               THEN [name |-> "", err |-> TRUE]
               ELSE [name |-> IommuGroup(a), err |-> FALSE]
          [] OTHER -> [name |-> "", err |-> TRUE]

\* getDpdkDeviceNames without vfioDev2, the node of the vfio container.
getDpdkDeviceNamesGroupOnly(drv, id, fail) ==
    LET dev == getDpdkDevice(drv, id, fail)
    IN  IF dev.err THEN [paths |-> <<>>, err |-> TRUE]
        ELSE CASE dpdkDriver = "igb_uio" ->
                    [paths |-> << uioDevicePath \o <<dev.name>> >>, err |-> FALSE]
               [] dpdkDriver = "vfio-pci" ->
                    [paths |-> << vfioDevicePath \o <<dev.name>> >>, err |-> FALSE]
               [] OTHER -> [paths |-> <<>>, err |-> TRUE]

getDpdkDeviceNames(drv, id, fail) ==
    LET dev == getDpdkDevice(drv, id, fail)
    IN  IF dev.err THEN [paths |-> <<>>, err |-> TRUE]
        ELSE CASE dpdkDriver = "igb_uio" ->
                    [paths |-> << uioDevicePath \o <<dev.name>> >>, err |-> FALSE]
               [] dpdkDriver = "vfio-pci" ->
                    [paths |-> << vfioDevicePath \o <<dev.name>>,
                                  vfioDevicePath \o <<"vfio">> >>, err |-> FALSE]
               [] OTHER -> [paths |-> <<>>, err |-> TRUE]

getDpdkMountPaths(drv, id, fail) ==
    LET dev == getDpdkDevice(drv, id, fail)
    IN  IF dev.err THEN [paths |-> <<>>, err |-> TRUE]
        ELSE CASE dpdkDriver = "igb_uio" ->
                    [paths |-> << uioMountPath \o <<dev.name, "device">> >>, err |-> FALSE]
               [] dpdkDriver = "vfio-pci" -> [paths |-> <<>>, err |-> FALSE]
               [] OTHER -> [paths |-> <<>>, err |-> TRUE]

\* deviceplugin.DeviceInfo{}
EmptyInfo == [State |-> "", Nodes |-> <<>>, Mounts |-> <<>>, Envs |-> <<>>]

EnvKey(counter) == ToUpper(TrimSuffix(namespace, <<".intel.com">>)) \o <<counter>>

\* getDeviceInfo without the return at line 248: the paths are resolved
\* whatever bindDevice returned.
getDeviceInfoResolvesAnyway(drv, vfpciaddr, counter, f) ==
    LET fileName == Join(<< <<"0000:">>, vfpciaddr >>)
        a == DeviceAt(fileName)
        rd == getDeviceID(fileName, f = "readID")
        e0 == Event("readID", a, ~rd.err, drv)
        b == bindDevice(drv, vfpciaddr, f)
        nodes == getDpdkDeviceNames(b.drv, vfpciaddr, f = "names")
        e4 == Event("names", a, ~nodes.err, b.drv)
        mounts == getDpdkMountPaths(b.drv, vfpciaddr, f = "mounts")
        e5 == Event("mounts", a, ~mounts.err, b.drv)
    IN  IF rd.err
        THEN [drv |-> drv, ops |-> <<e0>>, err |-> TRUE, info |-> EmptyInfo]
        ELSE IF ~isValidVfDeviceID(rd.id)
        THEN [drv |-> drv, ops |-> <<e0>>, err |-> FALSE, info |-> EmptyInfo]
        ELSE IF nodes.err
        THEN [drv |-> b.drv, ops |-> <<e0>> \o b.ops \o <<e4>>, err |-> TRUE,
              info |-> EmptyInfo]
        ELSE IF mounts.err
        THEN [drv |-> b.drv, ops |-> <<e0>> \o b.ops \o <<e4, e5>>, err |-> TRUE,
              info |-> EmptyInfo]
        ELSE [drv |-> b.drv, ops |-> <<e0>> \o b.ops \o <<e4, e5>>, err |-> FALSE,
              info |-> [State |-> "Healthy", Nodes |-> nodes.paths,
                        Mounts |-> mounts.paths,
                        Envs |-> [k \in {EnvKey(counter)} |-> fileName]]]

getDeviceInfo(drv, vfpciaddr, counter, f) ==
    LET fileName == Join(<< <<"0000:">>, vfpciaddr >>)
        a == DeviceAt(fileName)
        rd == getDeviceID(fileName, f = "readID")
        e0 == Event("readID", a, ~rd.err, drv)
        b == bindDevice(drv, vfpciaddr, f)
        nodes == getDpdkDeviceNames(b.drv, vfpciaddr, f = "names")
        e4 == Event("names", a, ~nodes.err, b.drv)
        mounts == getDpdkMountPaths(b.drv, vfpciaddr, f = "mounts")
        e5 == Event("mounts", a, ~mounts.err, b.drv)
    IN  IF rd.err
        THEN [drv |-> drv, ops |-> <<e0>>, err |-> TRUE, info |-> EmptyInfo]
        ELSE IF ~isValidVfDeviceID(rd.id)
        THEN [drv |-> drv, ops |-> <<e0>>, err |-> FALSE, info |-> EmptyInfo]
        ELSE IF b.err
        THEN [drv |-> b.drv, ops |-> <<e0>> \o b.ops, err |-> TRUE, info |-> EmptyInfo]
        ELSE IF nodes.err
        THEN [drv |-> b.drv, ops |-> <<e0>> \o b.ops \o <<e4>>, err |-> TRUE,
              info |-> EmptyInfo]
        ELSE IF mounts.err
        THEN [drv |-> b.drv, ops |-> <<e0>> \o b.ops \o <<e4, e5>>, err |-> TRUE,
              info |-> EmptyInfo]
        ELSE [drv |-> b.drv, ops |-> <<e0>> \o b.ops \o <<e4, e5>>, err |-> FALSE,
              info |-> [State |-> "Healthy", Nodes |-> nodes.paths,
                        Mounts |-> mounts.paths,
                        Envs |-> [k \in {EnvKey(counter)} |-> fileName]]]

\* deviceplugin.NewDeviceTree and DeviceTree.AddDevice
NewDeviceTree == <<>>

AddDevice(tree, devType, id, info) ==
    LET sub == IF devType \in DOMAIN tree THEN tree[devType] ELSE <<>>
    IN  [t \in DOMAIN tree \cup {devType} |->
            IF t = devType
            THEN [k \in DOMAIN sub \cup {id} |-> IF k = id THEN info ELSE sub[k]]
            ELSE tree[t]]

\* The ids the tree holds, of any class.
TreeIDs(tree) == UNION { DOMAIN tree[t] : t \in DOMAIN tree }

\* scan, lines 275-283 for the kernel drivers: their entries with the
\* "0000:" prefix, in the order of the drivers; an absent directory is skipped.
RECURSIVE ListKernel(_, _, _)
ListKernel(drv, ld, drivers) ==
    IF drivers = <<>> THEN <<>>
    ELSE LET rd == ReadDir(drv, ld, Head(drivers))
         IN  IF rd.err THEN ListKernel(drv, ld, Tail(drivers))
             ELSE SelectSeq(rd.files, LAMBDA file : HasPrefix(file, <<"0000:">>))
                    \o ListKernel(drv, ld, Tail(drivers))

\* The drivers of the configuration.
Configured == Range(kernelVfDrivers) \cup {dpdkDriver}

\* scanDirs with "return devTree, err" in place of the continue at line 279.
scanDirsAborts(drv, ld) ==
    IF Configured \ ld # {}
    THEN [err |-> TRUE, filesNew |-> <<>>, files |-> <<>>]
    ELSE [err |-> FALSE,
          filesNew |-> ListKernel(drv, ld, kernelVfDrivers),
          files |-> ReadDir(drv, ld, dpdkDriver).files]

\* scan, lines 275-280: what the loop over append(kernelVfDrivers, dpdkDriver)
\* reads.  No directory that cannot be read makes scan return an error.
scanDirs(drv, ld) ==
    [err |-> FALSE,
     filesNew |-> ListKernel(drv, ld, kernelVfDrivers),
     files |-> ReadDir(drv, ld, dpdkDriver).files]

\* AfterInventory with scan returning an error once the cap is reached.
AfterInventoryStops(bound) == IF bound < maxDevices THEN "rebind" ELSE "stopped"

\* Where scan goes after the loop over the drivers.
AfterInventory(bound) == IF bound < maxDevices THEN "rebind" ELSE "notify"

NoDriver == [a \in Addr |-> "none"]

\* scan's devicesNeeded with one entry more than the cap leaves room for.
devicesNeededPlusOne == maxDevices - dpdkDriverBound + 1

\* scan, line 301
devicesNeeded == maxDevices - dpdkDriverBound

\* No call outside the scan loop.
NoCall == [op |-> "none"]

\* The command line of the plugin's deployment.
DefaultArgs == [dpdk |-> "vfio-pci", kernel |-> <<"c6xxvf">>]

----------------------------------------------------------------------------
\* actions

\* Scan before its first cycle, line 71, and what is remembered of cycles.
InitScan ==
    /\ devTree = NewDeviceTree
    /\ filesNew = <<>>
    /\ files = <<>>
    /\ dpdkDriverBound = 0
    /\ n = 0
    /\ ops = <<>>
    /\ added = {}
    /\ startDriver = NoDriver
    /\ treeAtStart = NewDeviceTree
    /\ prevOn = FALSE
    /\ prevDriver = NoDriver
    /\ prevLoaded = {}
    /\ prevClean = FALSE
    /\ compare = "no"
    /\ clean = TRUE

InitPlugin ==
    /\ args = DefaultArgs
    /\ call = NoCall
    /\ maxDevices \in 1..MaxCap
    /\ dpdkDriver = "vfio-pci"
    /\ kernelVfDrivers = <<"c6xxvf">>
    /\ devattr \in [Addr -> RawAttrs]
    /\ loaded = Configured
    /\ driver \in [Addr -> Range(kernelVfDrivers)]
    /\ pc = "idle"
    /\ InitScan

Init == InitPlugin /\ track = FALSE /\ notifier = "off"

\* Between two cycles the host moves a device to another driver, or to none.
\* What is remembered of the previous cycle is dropped: HostRestore stands for
\* every change of the host that ends where the previous cycle started.
HostRebind(a, d) ==
    /\ pc = "idle"
    /\ d \in loaded \cup {"none"}
    /\ d # driver[a]
    /\ driver' = [driver EXCEPT ![a] = d]
    /\ prevOn' = FALSE
    /\ prevDriver' = NoDriver
    /\ prevLoaded' = {}
    /\ prevClean' = FALSE
    /\ UNCHANGED <<config, loaded, pc, devTree, locals, history, track, compare, clean,
                   notifier>>

\* Between two cycles a driver's module is loaded.
HostLoad(d) ==
    /\ pc = "idle"
    /\ d \in Configured \ loaded
    /\ loaded' = loaded \cup {d}
    /\ prevOn' = FALSE
    /\ prevDriver' = NoDriver
    /\ prevLoaded' = {}
    /\ prevClean' = FALSE
    /\ UNCHANGED <<config, driver, pc, devTree, locals, history, track, compare, clean,
                   notifier>>

\* Between two cycles a driver's module is removed; its devices lose their driver.
HostUnload(d) ==
    /\ pc = "idle"
    /\ d \in loaded
    /\ loaded' = loaded \ {d}
    /\ driver' = [a \in Addr |-> IF driver[a] = d THEN "none" ELSE driver[a]]
    /\ prevOn' = FALSE
    /\ prevDriver' = NoDriver
    /\ prevLoaded' = {}
    /\ prevClean' = FALSE
    /\ UNCHANGED <<config, pc, devTree, locals, history, track, compare, clean,
                   notifier>>

\* Between two cycles the host comes back to the state in which the previous
\* cycle started.
HostRestore ==
    /\ pc = "idle"
    /\ prevOn
    /\ driver # prevDriver \/ loaded # prevLoaded
    /\ driver' = prevDriver
    /\ loaded' = prevLoaded
    /\ UNCHANGED <<config, pc, devTree, locals, history, monitor>>

\* Scan, lines 72-76, and scan, lines 273-280: the directories are read, the
\* kernel drivers' first.
ScanStart ==
    /\ pc = "idle"
    /\ LET r == scanDirs(driver, loaded)
       IN  /\ pc' = IF r.err THEN "stopped" ELSE "inventory"
           /\ filesNew' = r.filesNew
           /\ files' = r.files
    /\ dpdkDriverBound' = 0
    /\ n' = 0
    /\ ops' = <<>>
    /\ added' = {}
    /\ startDriver' = driver
    /\ compare' = IF track /\ prevOn /\ prevDriver = driver /\ prevLoaded = loaded
                  THEN (IF prevClean THEN "sameClean" ELSE "same")
                  ELSE "no"
    /\ treeAtStart' = IF compare' # "no" \/ notifier = "holds"
                      THEN devTree
                      ELSE NewDeviceTree
    /\ clean' = TRUE
    /\ prevOn' = FALSE
    /\ prevDriver' = NoDriver
    /\ prevLoaded' = {}
    /\ prevClean' = FALSE
    /\ UNCHANGED <<config, driver, loaded, devTree, track, notifier>>

\* scan, line 282: an entry of the target driver's directory without the prefix.
InventorySkip ==
    /\ pc = "inventory"
    /\ files # <<>>
    /\ ~HasPrefix(Head(files), <<"0000:">>)
    /\ files' = Tail(files)
    /\ ops' = <<>>
    /\ UNCHANGED <<added, startDriver, treeAtStart>>
    /\ UNCHANGED <<config, driver, loaded, pc, devTree, filesNew, dpdkDriverBound, n,
                   monitor>>

\* scan, lines 283-288: the device beyond the cap ends the loop.
InventoryBreak ==
    /\ pc = "inventory"
    /\ files # <<>>
    /\ HasPrefix(Head(files), <<"0000:">>)
    /\ dpdkDriverBound + 1 > maxDevices
    /\ filesNew' = Append(filesNew, Head(files))
    /\ dpdkDriverBound' = dpdkDriverBound + 1
    /\ files' = <<>>
    /\ pc' = AfterInventory(dpdkDriverBound')
    /\ ops' = <<>>
    /\ UNCHANGED <<added, startDriver, treeAtStart>>
    /\ UNCHANGED <<config, driver, loaded, devTree, n, monitor>>

\* Described with the number of devices in the tree as the ordinal of the
\* environment variable, in place of scan's counter.
DescribedByTreeSize(vfpciaddr, counter, f) ==
    \E r \in {getDeviceInfo(driver, vfpciaddr, Cardinality(TreeIDs(devTree)), f)} :
        /\ driver' = r.drv
        /\ ops' = r.ops
        /\ devTree' = IF r.err THEN devTree
                      ELSE AddDevice(devTree, "generic", vfpciaddr, r.info)
        /\ added' = IF r.err THEN added ELSE added \cup {vfpciaddr}
        /\ clean' = IF track THEN clean /\ ~r.err ELSE clean

\* The effect of one getDeviceInfo call of scan and of the AddDevice after it.
Described(vfpciaddr, counter, f) ==
    \E r \in {getDeviceInfo(driver, vfpciaddr, counter, f)} :
        /\ driver' = r.drv
        /\ ops' = r.ops
        /\ devTree' = IF r.err THEN devTree
                      ELSE AddDevice(devTree, "generic", vfpciaddr, r.info)
        /\ added' = IF r.err THEN added ELSE added \cup {vfpciaddr}
        /\ clean' = IF track THEN clean /\ ~r.err ELSE clean

\* scan, lines 283-295: a device listed under the target driver.
InventoryDevice(f) ==
    /\ pc = "inventory"
    /\ files # <<>>
    /\ HasPrefix(Head(files), <<"0000:">>)
    /\ dpdkDriverBound + 1 <= maxDevices
    /\ filesNew' = Append(filesNew, Head(files))
    /\ dpdkDriverBound' = dpdkDriverBound + 1
    /\ Described(TrimPrefix(Head(files), <<"0000:">>), dpdkDriverBound', f)
    /\ files' = Tail(files)
    /\ UNCHANGED <<config, loaded, pc, n, startDriver, treeAtStart, track, prevOn,
                   prevDriver, prevLoaded, prevClean, compare, notifier>>

\* scan, lines 298-302: the target driver's directory is exhausted.
InventoryDone ==
    /\ pc = "inventory"
    /\ files = <<>>
    /\ pc' = AfterInventory(dpdkDriverBound)
    /\ ops' = <<>>
    /\ UNCHANGED <<added, startDriver, treeAtStart>>
    /\ UNCHANGED <<config, driver, loaded, devTree, locals, monitor>>

\* scan, lines 303-314: one of the first devicesNeeded entries of filesNew.
RebindDevice(f) ==
    /\ pc = "rebind"
    /\ n < Len(filesNew)
    /\ n + 1 <= devicesNeeded
    /\ n' = n + 1
    /\ Described(TrimPrefix(filesNew[n'], <<"0000:">>), dpdkDriverBound, f)
    /\ UNCHANGED <<config, loaded, pc, filesNew, files, dpdkDriverBound, startDriver,
                   treeAtStart, track, prevOn, prevDriver, prevLoaded, prevClean,
                   compare, notifier>>

\* scan, lines 304-307: the entry beyond devicesNeeded ends the loop.
RebindBreak ==
    /\ pc = "rebind"
    /\ n < Len(filesNew)
    /\ n + 1 > devicesNeeded
    /\ n' = n + 1
    /\ pc' = "notify"
    /\ ops' = <<>>
    /\ UNCHANGED <<added, startDriver, treeAtStart>>
    /\ UNCHANGED <<config, driver, loaded, devTree, filesNew, files, dpdkDriverBound,
                   monitor>>

\* scan, lines 315-317: filesNew is exhausted.
RebindDone ==
    /\ pc = "rebind"
    /\ n = Len(filesNew)
    /\ pc' = "notify"
    /\ ops' = <<>>
    /\ UNCHANGED <<added, startDriver, treeAtStart>>
    /\ UNCHANGED <<config, driver, loaded, devTree, locals, monitor>>

\* Scan, lines 78-80: the tree goes to the notifier and the loop sleeps.
Notify ==
    /\ pc = "notify"
    /\ pc' = "idle"
    /\ filesNew' = <<>>
    /\ files' = <<>>
    /\ dpdkDriverBound' = 0
    /\ n' = 0
    /\ ops' = <<>>
    /\ added' = {}
    /\ startDriver' = NoDriver
    /\ treeAtStart' = NewDeviceTree
    /\ prevOn' = track
    /\ prevDriver' = IF track THEN startDriver ELSE NoDriver
    /\ prevLoaded' = IF track THEN loaded ELSE {}
    /\ prevClean' = (track /\ clean)
    /\ compare' = "no"
    /\ clean' = TRUE
    /\ notifier' = IF notifier = "off" THEN "off" ELSE "holds"
    /\ UNCHANGED <<config, driver, loaded, devTree, track>>

Next ==
    \/ \E a \in Addr, d \in Configured \cup {"none"} : HostRebind(a, d)
    \/ \E d \in Configured : HostLoad(d)
    \/ \E d \in Configured : HostUnload(d)
    \/ ScanStart
    \/ InventorySkip
    \/ InventoryBreak
    \/ \E f \in FailPoints : InventoryDevice(f)
    \/ InventoryDone
    \/ \E f \in FailPoints : RebindDevice(f)
    \/ RebindBreak
    \/ RebindDone
    \/ Notify

\* The plugin and its host.
Spec == Init /\ [][Next]_vars

\* The values of -dpdk-driver and of -kernel-vf-drivers the model starts main
\* with: accepted ones, the driver of the physical function, a name after an
\* accepted one, a trailing comma.
DpdkFlags == {"vfio-pci", "igb_uio", "uio_pci_generic"}
KernelFlags ==
    { <<"c6xxvf">>, <<"c6xx">>, <<"c6xxvf", ",", "c6xx">>, <<"c6xxvf", ",">> }

\* The drivers the host has loaded, and its devices, when the plugin starts.
HostDrivers == {"c6xxvf", "vfio-pci", "igb_uio"}
HostAtBoot == [a \in Addr |-> "c6xxvf"]

\* main with the check of -dpdk-driver, lines 332-335, left out.
mainAcceptsAnyDpdk(a) ==
    \A k \in DOMAIN Split(a.kernel) : isValidKerneDriver(Split(a.kernel)[k])

\* main, lines 332-343: both flags pass their check.
mainAccepts(a) ==
    /\ isValidDpdkDeviceDriver(a.dpdk)
    /\ \A k \in DOMAIN Split(a.kernel) : isValidKerneDriver(Split(a.kernel)[k])

\* os.Exit(1)
Exit1 == [op |-> "exit", status |-> 1]

InitMain ==
    /\ args \in [dpdk : DpdkFlags, kernel : KernelFlags]
    /\ call = NoCall
    /\ maxDevices \in 1..MaxCap
    /\ dpdkDriver = ""
    /\ kernelVfDrivers = <<>>
    /\ devattr \in [Addr -> RawAttrs]
    /\ loaded = HostDrivers
    /\ driver = HostAtBoot
    /\ pc = "main"
    /\ InitScan
    /\ track = FALSE
    /\ notifier = "off"

\* main, lines 321-347: the flags are checked, then the plugin is made and run.
Main ==
    /\ pc = "main"
    /\ IF mainAccepts(args)
       THEN /\ pc' = "idle"
            /\ dpdkDriver' = args.dpdk
            /\ kernelVfDrivers' = Split(args.kernel)
            /\ call' = call
       ELSE /\ pc' = "exited"
            /\ call' = Exit1
            /\ UNCHANGED <<dpdkDriver, kernelVfDrivers>>
    /\ UNCHANGED <<args, maxDevices, devattr, driver, loaded, devTree, locals, history,
                   monitor>>

NextMain ==
    \/ Main
    \/ Next

\* The process from main on.
SpecMain == InitMain /\ [][NextMain]_vars

\* The ID strings written to the attribute of device 1 for a call of
\* getDeviceID: up to MaxIDLen characters, none of them white space.
IDChars == {"0", "x", "1"}
IDStrings == UNION { [1..k -> IDChars] : k \in 0..MaxIDLen }

\* The attribute holding s, with or without "0x" before it, between white space.
Attribute(c) == c.lead \o (IF c.prefixed THEN <<"0", "x">> ELSE <<>>) \o c.s \o c.trail

\* Before a call of getDeviceID for device 1.
InitID ==
    /\ call \in [op : {"getDeviceID"}, s : IDStrings, prefixed : BOOLEAN,
                  lead : {<<>>, <<" ">>}, trail : {<<>>, <<"\n">>},
                  unreadable : {FALSE}, out : {[id |-> <<>>, err |-> FALSE]}]
    /\ devattr = [a \in Addr |-> IF a = 1 THEN Attribute(call)
                                 ELSE <<"0", "x", "3", "7", "c", "9", "\n">>]
    /\ args = DefaultArgs
    /\ maxDevices = 1
    /\ dpdkDriver = "vfio-pci"
    /\ kernelVfDrivers = <<"c6xxvf">>
    /\ loaded = Configured
    /\ driver = HostAtBoot
    /\ pc = "getDeviceID"
    /\ InitScan
    /\ track = FALSE
    /\ notifier = "off"

\* getDeviceID, lines 156-163, for device 1; ReadFile fails or not.
GetDeviceID(fail) ==
    /\ pc = "getDeviceID"
    /\ pc' = "returned"
    /\ call' = [call EXCEPT !.unreadable = fail,
                            !.out = getDeviceID(<<"0000:", 1>>, fail)]
    /\ UNCHANGED <<args, maxDevices, dpdkDriver, kernelVfDrivers, devattr, driver, loaded,
                   devTree, locals, history, monitor>>

NextID == \E fail \in BOOLEAN : GetDeviceID(fail)

\* getDeviceID on its own.
SpecID == InitID /\ [][NextID]_vars

\* The Envs a container response arrives with: the entries of the descriptors
\* of its devices, keys QAT0..QAT<MaxCap> and the devices' file names, no
\* device twice.
EnvMaps ==
    { e \in UNION { [K -> { <<"0000:", a>> : a \in Addr }] :
                      K \in SUBSET { EnvKey(c) : c \in 0..MaxCap } } :
        \A k1, k2 \in DOMAIN e : k1 # k2 => e[k1] # e[k2] }

\* The allocate responses: up to MaxContainers container responses, no device
\* in two of them.
Responses ==
    { r \in UNION { [1..c -> [Envs : EnvMaps]] : c \in 0..MaxContainers } :
        \A i, j \in DOMAIN r : i # j => Range(r[i].Envs) \cap Range(r[j].Envs) = {} }

\* The orders in which "for k := range cresp.Envs" can visit the keys of a map.
RangeOrders(m) ==
    { o \in [1..Cardinality(DOMAIN m) -> DOMAIN m] :
        \A i, j \in DOMAIN o : i # j => o[i] # o[j] }

\* PostAllocate, lines 216-219: the entries of one container are written to
\* tempMap in the order o, from the counter on.
RECURSIVE putEnvs(_, _, _, _)
putEnvs(tempMap, envs, o, counter) ==
    IF counter >= Len(o) THEN tempMap
    ELSE putEnvs([k \in DOMAIN tempMap \cup {<<"QAT", counter>>} |->
                     IF k = <<"QAT", counter>> THEN envs[o[counter + 1]] ELSE tempMap[k]],
                 envs, o, counter + 1)

\* PostAllocate, lines 213-221: tempMap after the containers from i on.
RECURSIVE fillTempMap(_, _, _, _)
fillTempMap(tempMap, response, orders, i) ==
    IF i > Len(response) THEN tempMap
    ELSE fillTempMap(putEnvs(tempMap, response[i].Envs, orders[i], 0),
                     response, orders, i + 1)

\* PostAllocate: every cresp.Envs is set to tempMap, the one map made at line
\* 213, so that after the call each holds what tempMap holds at the end.
PostAllocateResponse(response, orders) ==
    [i \in DOMAIN response |-> [Envs |-> fillTempMap(<<>>, response, orders, 1)]]

\* Before a call of PostAllocate.
InitAlloc ==
    /\ call \in [op : {"PostAllocate"}, response : Responses, out : {<<>>}]
    /\ args = DefaultArgs
    /\ maxDevices = MaxCap
    /\ dpdkDriver = "vfio-pci"
    /\ kernelVfDrivers = <<"c6xxvf">>
    /\ devattr = [a \in Addr |-> <<"0", "x", "3", "7", "c", "9", "\n">>]
    /\ loaded = Configured
    /\ driver = HostAtBoot
    /\ pc = "PostAllocate"
    /\ InitScan
    /\ track = FALSE
    /\ notifier = "off"

\* PostAllocate, lines 212-223.
PostAllocate ==
    /\ pc = "PostAllocate"
    /\ pc' = "returned"
    /\ \E orders \in [DOMAIN call.response -> UNION { RangeOrders(e) : e \in EnvMaps }] :
          /\ \A i \in DOMAIN orders : orders[i] \in RangeOrders(call.response[i].Envs)
          /\ call' = [call EXCEPT !.out = PostAllocateResponse(call.response, orders)]
    /\ UNCHANGED <<args, maxDevices, dpdkDriver, kernelVfDrivers, devattr, driver, loaded,
                   devTree, locals, history, monitor>>

\* PostAllocate on its own.
SpecAlloc == InitAlloc /\ [][PostAllocate]_vars

\* The steps of the plugin's goroutine.
ScanStep ==
    \/ ScanStart
    \/ InventorySkip
    \/ InventoryBreak
    \/ \E f \in FailPoints : InventoryDevice(f)
    \/ InventoryDone
    \/ \E f \in FailPoints : RebindDevice(f)
    \/ RebindBreak
    \/ RebindDone
    \/ Notify

\* The plugin and its host, the goroutine of Scan being scheduled: every
\* filesystem call returns and the sleep of five seconds ends.
SpecLive == Spec /\ WF_vars(ScanStep)

\* The plugin started on a host whose devices are under any of the configured
\* drivers.
InitRetry ==
    /\ args = DefaultArgs
    /\ call = NoCall
    /\ maxDevices \in 1..MaxCap
    /\ dpdkDriver = "vfio-pci"
    /\ kernelVfDrivers = <<"c6xxvf">>
    /\ devattr \in [Addr -> RawAttrs]
    /\ loaded = Configured
    /\ driver \in [Addr -> Configured]
    /\ pc = "idle"
    /\ InitScan
    /\ track = FALSE
    /\ notifier = "off"

\* The steps of Scan when every filesystem operation succeeds.
NextRetry ==
    \/ ScanStart
    \/ InventorySkip
    \/ InventoryBreak
    \/ InventoryDevice("none")
    \/ InventoryDone
    \/ RebindDevice("none")
    \/ RebindBreak
    \/ RebindDone
    \/ Notify

\* The plugin alone on a quiet host: no operation fails, nothing else changes
\* a binding, the directories list in the same order in every cycle, and the
\* goroutine of Scan is scheduled.
SpecRetry == InitRetry /\ [][NextRetry]_vars /\ WF_vars(NextRetry)

\* The same as Spec, with the notifier watched: the tree it was handed at
\* line 78 is the map devTreeIn itself, which scan returns (line 317), and
\* what the map held at that moment is kept in treeAtStart.
InitHandoff == InitPlugin /\ track = FALSE /\ notifier = "waiting"

SpecHandoff == InitHandoff /\ [][Next]_vars

\* The same, with the start of the previous cycle remembered for comparison.
InitIdem == InitPlugin /\ track = TRUE /\ notifier = "off"

NextIdem ==
    \/ Next
    \/ HostRestore

SpecIdem == InitIdem /\ [][NextIdem]_vars

----------------------------------------------------------------------------
\* what the claims speak of

KernelDrivers == Range(kernelVfDrivers)

\* The id scan uses for device a.
IdOf(a) == <<a>>

\* The devices among the entries of a listing.
DevicesIn(entries) ==
    { DeviceAt(entries[k]) : k \in { j \in DOMAIN entries : HasPrefix(entries[j], <<"0000:">>) } }

\* The operations of the last getDeviceInfo call that resolve paths.
IsResolve(e) == e.op \in {"names", "mounts"}
IsWrite(e) == e.op \in {"unbind", "new_id"}

----------------------------------------------------------------------------
\* C1: the snapshot handed to the notifier holds at most maxDevices
\* descriptors, in every cycle and whatever the host did between cycles.
C1_SnapshotWithinCap ==
    pc = "notify" => Cardinality(TreeIDs(devTree)) <= maxDevices

\* C2: no entry is ever added to a snapshot for a device whose ID is outside
\* the allow-list, under whichever driver it was listed.
C2_UnknownNeverInSnapshot ==
    \A a \in Addr : IdOf(a) \in TreeIDs(devTree) => isValidVfDeviceID(HardwareID(a))

\* C3: a device listed under the target driver in a cycle sees neither the
\* unbind write nor the new_id write in that cycle.
C3_TargetBoundNeverRebound ==
    \A k \in DOMAIN ops : IsWrite(ops[k]) => startDriver[ops[k].addr] # dpdkDriver

\* C4: in bindDevice the unbind write precedes the new_id write, and after a
\* failed unbind write there is no new_id write and the device is bound as it
\* was before the call.
C4_UnbindBeforeBind ==
    \A k \in DOMAIN ops :
        /\ ops[k].op = "new_id" =>
              \E j \in 1..(k - 1) :
                  ops[j].op = "unbind" /\ ops[j].ok /\ ops[j].addr = ops[k].addr
        /\ (ops[k].op = "unbind" /\ ~ops[k].ok) =>
              /\ \A j \in DOMAIN ops : ops[j].op # "new_id"
              /\ driver[ops[k].addr] = ops[k].bound

\* C4, its case: the unbind write failed for a device bound to a kernel driver.
C4_Witness ==
    \E k \in DOMAIN ops :
        ops[k].op = "unbind" /\ ~ops[k].ok /\ ops[k].bound \in KernelDrivers

\* C5: after a call in which a kernel-bound device with a valid ID was
\* unbound and the new_id write failed, the snapshot has no descriptor for the
\* device and the device is bound to its kernel driver.
C5_BindFailureLeavesKernelBound ==
    \A k \in DOMAIN ops :
        (/\ ops[k].op = "new_id"
         /\ ~ops[k].ok
         /\ startDriver[ops[k].addr] \in KernelDrivers)
        => /\ IdOf(ops[k].addr) \notin TreeIDs(devTree)
           /\ driver[ops[k].addr] = startDriver[ops[k].addr]

\* C6 as stated: paths are resolved only for a device that was listed under
\* the target driver in this cycle and is bound to it at the call.
C6_ResolveOnlyTargetListed ==
    \A k \in DOMAIN ops :
        IsResolve(ops[k]) =>
            /\ startDriver[ops[k].addr] = dpdkDriver
            /\ ops[k].bound = dpdkDriver

\* C6 as amended: paths are resolved for a device only after both writes of
\* bindDevice succeeded for it in the same call, when it is bound to the
\* target driver; the device may have been listed under a kernel driver.
C6_ResolveOnlyAfterBind ==
    \A k \in DOMAIN ops :
        IsResolve(ops[k]) =>
            /\ ops[k].bound = dpdkDriver
            /\ \E j \in 1..(k - 1) :
                  ops[j].op = "unbind" /\ ops[j].ok /\ ops[j].addr = ops[k].addr
            /\ \E j \in 1..(k - 1) :
                  ops[j].op = "new_id" /\ ops[j].ok /\ ops[j].addr = ops[k].addr

\* C6, its case: paths resolved for a device that this cycle listed under a
\* kernel driver.
C6_Witness ==
    \E k \in DOMAIN ops :
        IsResolve(ops[k]) /\ ops[k].ok /\ startDriver[ops[k].addr] \in KernelDrivers

\* C7: the snapshot of a cycle holds only devices that were described and
\* added in that cycle.
C7_SnapshotBuiltFresh ==
    pc = "notify" => TreeIDs(devTree) \subseteq added

C9_FailureSkipsDevice ==
    /\ pc # "stopped"
    /\ \A k \in DOMAIN ops : ~ops[k].ok => IdOf(ops[k].addr) \notin TreeIDs(devTree)

\* C10: with the directory of a configured driver absent, scan returns no
\* error and lists exactly the devices of the other configured drivers.
C10_AbsentDriverSkipped ==
    /\ pc # "stopped"
    /\ (pc = "inventory" /\ Configured \ loaded # {}) =>
          DevicesIn(filesNew) \cup DevicesIn(files)
              = { a \in Addr : startDriver[a] \in Configured }

\* C10, its case: a cycle with a driver's directory absent reached the
\* notifier with a device of another driver described.
C10_Witness ==
    /\ pc = "notify"
    /\ Configured \ loaded # {}
    /\ \E id \in added : devTree["generic"][id].State = "Healthy"

\* The devices with an allow-listed ID that this cycle found under the target
\* driver.
ValidTargetBound ==
    { a \in Addr : startDriver[a] = dpdkDriver /\ isValidVfDeviceID(HardwareID(a)) }

\* C11: a cycle that finds at least maxDevices valid devices under the target
\* driver, and in which no call fails, hands over exactly maxDevices
\* descriptors and passes no device through the rebind phase.
C11_CapReachedByTargetBound ==
    (pc = "notify" /\ clean /\ Cardinality(ValidTargetBound) >= maxDevices)
    => /\ Cardinality(TreeIDs(devTree)) = maxDevices
       /\ n = 0

\* The kernel-bound devices of this cycle that the cap leaves no room for:
\* the entries of filesNew after the first maxDevices - dpdkDriverBound.
BeyondCap ==
    { DeviceAt(filesNew[j]) :
        j \in { i \in DOMAIN filesNew :
                  /\ i > maxDevices - dpdkDriverBound
                  /\ startDriver[DeviceAt(filesNew[i])] \in KernelDrivers } }

\* C12: the rebind phase passes at most maxDevices - dpdkDriverBound devices
\* to getDeviceInfo, and a kernel-bound device beyond that number sees no
\* operation and is bound at the end of the cycle as it was at its start.
C12_BeyondCapUntouched ==
    /\ (pc = "rebind" /\ ops # <<>>) => n <= maxDevices - dpdkDriverBound
    /\ pc \in {"rebind", "notify"} =>
          \A a \in BeyondCap :
              /\ driver[a] = startDriver[a]
              /\ \A k \in DOMAIN ops : ops[k].addr # a

\* C12, its case: a cycle rebound a kernel-bound device and left another
\* beyond the cap.
C12_Witness ==
    /\ pc = "notify"
    /\ BeyondCap # {}
    /\ \E a \in Addr : startDriver[a] \in KernelDrivers /\ driver[a] = dpdkDriver

\* C13: Scan never returns; every scan reaches its Notify, which hands over
\* the tree as scan left it and puts the loop to sleep, and after every Notify
\* another scan starts; this whatever directory is absent and whichever call fails.
C13_LoopNeverEnds ==
    /\ [](pc # "stopped")
    /\ [][pc = "notify" => (pc' = "idle" /\ devTree' = devTree)]_vars
    /\ [][pc' = "inventory" => pc \in {"idle", "inventory"}]_vars
    /\ [][pc' = "idle" => pc \in {"idle", "notify"}]_vars
    /\ []<>(pc = "notify")
    /\ []<>(pc = "inventory")

\* C13, its case: after a cycle that added a device, a scan with the
\* directory of a configured driver absent in which a call failed.
C13_Witness ==
    /\ pc \in {"inventory", "rebind"}
    /\ devTree # NewDeviceTree
    /\ added = {}
    /\ Configured \ loaded # {}
    /\ \E k \in DOMAIN ops : ~ops[k].ok

\* C14: with -dpdk-driver outside {igb_uio, vfio-pci} or a name of
\* -kernel-vf-drivers outside {dh895xccvf, c6xxvf, c3xxxvf, d15xxvf}, main exits
\* with status 1 and nothing is scanned, unbound or bound; and no scan runs
\* with a target driver for which getDpdkDevice has no case.
C14_ConfigurationChecked ==
    /\ (\/ args.dpdk \notin {"igb_uio", "vfio-pci"}
        \/ \E k \in DOMAIN Split(args.kernel) :
              Split(args.kernel)[k] \notin {"dh895xccvf", "c6xxvf", "c3xxxvf", "d15xxvf"})
       => /\ pc \in {"main", "exited"}
          /\ pc = "exited" => (call.op = "exit" /\ call.status # 0)
          /\ devTree = NewDeviceTree
          /\ ops = <<>>
          /\ driver = HostAtBoot
    /\ pc \notin {"main", "exited"} => dpdkDriver \in {"igb_uio", "vfio-pci"}

\* C14, its cases: main has exited for a name after an accepted one, and
\* main has exited for the target driver.
C14_Witness ==
    /\ pc = "exited"
    /\ \/ args.dpdk = "vfio-pci" /\ Len(Split(args.kernel)) = 2
       \/ args.dpdk = "uio_pci_generic" /\ args.kernel = <<"c6xxvf">>

\* C15: the descriptor of a device with an allow-listed ID is healthy, has
\* one environment entry, whose value is "0000:" and the address, and has the
\* paths of the target driver: for igb_uio the node /dev/<handle> and the
\* mount /sys/class/uio/<handle>/device, for vfio-pci the nodes
\* /dev/vfio/<group> and /dev/vfio/vfio and no mount.
C15_DescriptorOfSuccess ==
    \A a \in Addr :
        (IdOf(a) \in TreeIDs(devTree) /\ isValidVfDeviceID(HardwareID(a))) =>
            LET info == devTree["generic"][IdOf(a)]
            IN  /\ info.State = "Healthy"
                /\ Cardinality(DOMAIN info.Envs) = 1
                /\ \A k \in DOMAIN info.Envs : info.Envs[k] = <<"0000:", a>>
                /\ dpdkDriver = "igb_uio" =>
                      /\ info.Nodes = << <<"dev", UioHandle(a)>> >>
                      /\ info.Mounts = << <<"sys", "class", "uio", UioHandle(a), "device">> >>
                /\ dpdkDriver = "vfio-pci" =>
                      /\ info.Nodes = << <<"dev", "vfio", IommuGroup(a)>>,
                                         <<"dev", "vfio", "vfio">> >>
                      /\ info.Mounts = <<>>

\* C15, its case: under igb_uio the tree holds the descriptor of a device
\* that the cycle found under the kernel driver and rebound.
C15_Witness ==
    /\ dpdkDriver = "igb_uio"
    /\ \E a \in Addr :
          /\ IdOf(a) \in added
          /\ startDriver[a] \in KernelDrivers
          /\ devTree["generic"][IdOf(a)].State = "Healthy"

\* C16: for an ID string s that does not begin with "0x", getDeviceID gives
\* s for the attribute holding "0x" and s and for the attribute holding s,
\* white space around them or not; when the attribute cannot be read it
\* gives an error and no ID.
C16_IDNormalized ==
    pc = "returned" =>
        /\ call.unreadable => (call.out.err /\ call.out.id = <<>>)
        /\ (~call.unreadable /\ ~HasPrefix(call.s, <<"0", "x">>)) =>
              (~call.out.err /\ call.out.id = call.s)

\* C16, its case: an ID of the greatest length that begins with "0", read
\* from an attribute with "0x" before it and a newline after it.
C16_Witness ==
    /\ pc = "returned"
    /\ ~call.unreadable
    /\ call.prefixed
    /\ call.trail = <<"\n">>
    /\ Len(call.s) = MaxIDLen
    /\ Head(call.s) = "0"
    /\ ~HasPrefix(call.s, <<"0", "x">>)
    /\ call.out.id = call.s

\* The keys of the environment entries of the descriptor scan added for id.
KeysOf(id) == DOMAIN devTree["generic"][id].Envs

\* C17: two devices added in one cycle, in either phase, have no key of an
\* environment entry in common.
C17_OrdinalsDistinct ==
    \A id1, id2 \in added : id1 # id2 => KeysOf(id1) \cap KeysOf(id2) = {}

\* The number of devices under the target driver.
TargetBound == Cardinality({ b \in Addr : driver[b] = dpdkDriver })

\* C18: on a quiet host a device under a kernel driver with an allow-listed
\* ID is in the end under the target driver and in the tree, unless
\* maxDevices devices come to be under the target driver before.
C18_ValidDeviceNotStarved ==
    \A a \in Addr :
        [](  (driver[a] \in KernelDrivers /\ isValidVfDeviceID(HardwareID(a)))
          => <>(\/ (driver[a] = dpdkDriver /\ IdOf(a) \in TreeIDs(devTree))
                \/ TargetBound >= maxDevices))

\* C19: while the notifier holds the tree of a cycle, the scans that follow
\* leave it as it was handed over: they add no entry and overwrite none.
C19_HandedTreeNotWritten ==
    (notifier = "holds" /\ pc \in {"inventory", "rebind", "notify"})
    => devTree = treeAtStart

\* C20: after PostAllocate every container response has as many entries as
\* before, under the keys QAT0..QAT(k-1) for its k entries, with the values
\* it came with and no value of another container.
C20_EnvsRenamedPerContainer ==
    (pc = "returned" /\ call.op = "PostAllocate") =>
        \A i \in DOMAIN call.response :
            LET before == call.response[i].Envs
                after == call.out[i].Envs
                k == Cardinality(DOMAIN before)
            IN  /\ Cardinality(DOMAIN after) = k
                /\ DOMAIN after = { <<"QAT", c>> : c \in 0..(k - 1) }
                /\ Range(after) = Range(before)
                /\ \A j \in DOMAIN call.response :
                      j # i => Range(after) \cap Range(call.response[j].Envs) = {}

====
